---- MODULE Spec2Model ----
(***************************************************************************)
(* A model of the lox-base tree-walking interpreter: the syntax-tree       *)
(* nodes of lox/ast.py with their eval methods, the runtime values and      *)
(* operators of lox/runtime.py, and the rules of lox/transformer.py that    *)
(* build the nodes.  Evaluation is big-step: every eval method is a         *)
(* recursive operator from (node, ctx, store) to a completion, which is a   *)
(* normal value, a propagating LoxReturn, or a propagating exception.       *)
(*                                                                         *)
(* lox/ctx.py, lox/node.py and lox/errors.py are not part of the sources;   *)
(* Ctx and Cursor are modelled from their description: a context is a       *)
(* frame with a parent link, frames live in a heap and are shared by        *)
(* reference.                                                               *)
(***************************************************************************)
EXTENDS Integers, Sequences, FiniteSets, TLC

VARIABLES
    heap,     \* the scope frames ever created: [vars, parent]; frame 1 is the top-level one
    insts,    \* the LoxInstance objects ever created: [dict, fields], fields the names
              \* property writes stored
    ncls,     \* how many LoxClass objects were created (object identity)
    out,      \* the lines written to standard output
    live,     \* the frames pushed and not yet popped: <<frame, "block" | "call" | "class">>
    status,   \* "running" | "failed" (an exception reached the driver) | "returned" | "hung"
    count,    \* top-level statements evaluated so far
    exits,    \* how each block and call body was left so far: <<by, completion, balanced>>
    last,     \* the statement evaluated last, the store before it, its completion and its events
    vcase     \* the validation pass: the tree under validation and its verdict

vars == <<heap, insts, ncls, out, live, exits, status, count, last, vcase>>

(*************************** bounds ****************************************)
\* Top-level statements of one program.
MaxStmts == 3
\* Iterations of one while loop before the run counts as not terminating.
MaxLoop == 4
\* Nested calls before the host's recursion limit is hit.
MaxDepth == 3

(*************************** values ****************************************)
\* Value = bool | str | float | None, plus the runtime objects.
Nil == [t |-> "nil"]
B(b) == [t |-> "bool", b |-> b]
N(n) == [t |-> "num", n |-> n]
S(s) == [t |-> "str", s |-> s]
\* A LoxFunction is a dataclass: its fields are its identity.
LoxFunction(name, params, body, ctx) ==
    [t |-> "fn", name |-> name, params |-> params, body |-> body, ctx |-> ctx]
\* LoxInstance objects are mutable: a value refers to the object by its place in insts.
InstRef(i) == [t |-> "inst", iid |-> i]

Range(s) == {s[i] : i \in DOMAIN s}

(*************************** syntax tree ***********************************)
None == [type |-> "None"]
NoBase == ""
Literal(v) == [type |-> "Literal", value |-> v]
Var(name) == [type |-> "Var", name |-> name]
BinOp(left, right, op) == [type |-> "BinOp", left |-> left, right |-> right, op |-> op]
And(left, right) == [type |-> "And", left |-> left, right |-> right]
Or(left, right) == [type |-> "Or", left |-> left, right |-> right]
UnaryOp(op, operand) == [type |-> "UnaryOp", op |-> op, operand |-> operand]
Call(callee, params) == [type |-> "Call", callee |-> callee, params |-> params]
Assign(name, value) == [type |-> "Assign", name |-> name, value |-> value]
Getattr(obj, attr) == [type |-> "Getattr", obj |-> obj, attr |-> attr]
Setattr(obj, attr, value) == [type |-> "Setattr", obj |-> obj, attr |-> attr, value |-> value]
PrintStmt(expr) == [type |-> "Print", expr |-> expr]
Return(value) == [type |-> "Return", value |-> value]
VarDef(name, value) == [type |-> "VarDef", name |-> name, value |-> value]
If(cond, then_branch, else_branch) ==
    [type |-> "If", cond |-> cond, then_branch |-> then_branch, else_branch |-> else_branch]
While(cond, body) == [type |-> "While", cond |-> cond, body |-> body]
Block(stmts) == [type |-> "Block", stmts |-> stmts]
Function(name, params, body) ==
    [type |-> "Function", name |-> name, params |-> params, body |-> body]
Class(name, methods, base) ==
    [type |-> "Class", name |-> name, methods |-> methods, base |-> base]

(*************************** completions ***********************************)
\* k = "ok": v is the value; "ret": a LoxReturn carrying v propagates;
\* "err": the exception e propagates; "hang": the evaluation does not end.
Ok(v, st) == [k |-> "ok", v |-> v, e |-> "", st |-> st]
Ret(v, st) == [k |-> "ret", v |-> v, e |-> "", st |-> st]
Raise(e, st) == [k |-> "err", v |-> Nil, e |-> e, st |-> st]
Hang(st) == [k |-> "hang", v |-> Nil, e |-> "", st |-> st]

(*************************** Ctx *******************************************)
EmptyScope == [n \in {} |-> Nil]
Bind(scope, name, v) ==
    [n \in (DOMAIN scope) \cup {name} |-> IF n = name THEN v ELSE scope[n]]

\* The frame nearest to c that binds name, 0 when none does.
RECURSIVE Ctx_find(_, _, _)
Ctx_find(hp, c, name) ==
    IF c = 0 THEN 0
    ELSE IF name \in DOMAIN hp[c].vars THEN c
    ELSE Ctx_find(hp, hp[c].parent, name)

\* The frames of the chain that starts at c, innermost first.
RECURSIVE Ctx_chain(_, _)
Ctx_chain(hp, c) ==
    IF c = 0 THEN <<>> ELSE <<c>> \o Ctx_chain(hp, hp[c].parent)

Ctx_var_def(st, c, name, v) ==
    [st EXCEPT !.heap[c].vars = Bind(@, name, v)]

Ctx_assign(st, c, name, v) ==
    LET f == Ctx_find(st.heap, c, name)
    IN  [st EXCEPT !.heap[f].vars = Bind(@, name, v)]

\* push returns the new context; the frame is recorded as pushed by `by`.
Ctx_push(st, c, env, by) ==
    [st EXCEPT !.heap = Append(@, [vars |-> env, parent |-> c]),
               !.live = Append(@, <<Len(st.heap) + 1, by>>)]

Ctx_pop(st, c) ==
    [st EXCEPT !.live = SelectSeq(@, LAMBDA p : p[1] # c)]

(*************************** observation ***********************************)
\* The reads, writes and prints of the statement under evaluation, in order.
Event(ev, frame, name, v) == [ev |-> ev, frame |-> frame, name |-> name, v |-> v]
Log(st, ev, frame, name, v) ==
    [st EXCEPT !.trace = Append(@, Event(ev, frame, name, v))]

\* A block or call body was left with completion k; entry is the pushed-frame
\* stack its caller had on entry.
Left(st, by, k, entry) ==
    [st EXCEPT !.exits = @ \cup {<<by, k, st.live = entry>>}]

(*************************** runtime operators *****************************)
truthy(v) == ~(v = B(FALSE) \/ v = Nil)

runtime_not_(v) == B(~truthy(v))

\* The host's own `not x`: None, False, the number zero and the empty string
\* are false; every other object is true.
PyNot(v) == B(v = Nil \/ v = B(FALSE) \/ v = N(0) \/ v = S(""))

\* The unary operator functions a UnaryOp node may carry.
ApplyUnary(op, v, st) ==
    CASE op = "lambda x: not x" -> Ok(PyNot(v), st)
      [] op = "runtime.not_" -> Ok(runtime_not_(v), st)
      [] OTHER -> Raise("TypeError", st)

IsNum(v) == v.t = "num"
IsStr(v) == v.t = "str"

add(a, b, st) ==
    IF IsNum(a) /\ IsNum(b) THEN Ok(N(a.n + b.n), st)
    ELSE IF IsStr(a) /\ IsStr(b) THEN Ok(S(a.s \o b.s), st)
    ELSE Raise("LoxError", st)

sub(a, b, st) ==
    IF IsNum(a) /\ IsNum(b) THEN Ok(N(a.n - b.n), st) ELSE Raise("LoxError", st)

lt(a, b, st) ==
    IF IsNum(a) /\ IsNum(b) THEN Ok(B(a.n < b.n), st) ELSE Raise("LoxError", st)

gt(a, b, st) ==
    IF IsNum(a) /\ IsNum(b) THEN Ok(B(a.n > b.n), st) ELSE Raise("LoxError", st)

eq(a, b) == IF a.t # b.t THEN FALSE ELSE a = b

ApplyBin(op, a, b, st) ==
    CASE op = "add" -> add(a, b, st)
      [] op = "sub" -> sub(a, b, st)
      [] op = "lt" -> lt(a, b, st)
      [] op = "gt" -> gt(a, b, st)
      [] op = "eq" -> Ok(B(eq(a, b)), st)
      [] op = "ne" -> Ok(B(~eq(a, b)), st)
      [] OTHER -> Raise("TypeError", st)

\* str(LoxInstance): f"{self.cls.name} instance", self.cls read from the __dict__.
LoxInstance_str(v, st) ==
    LET d == st.insts[v.iid].dict
    IN  IF "cls" \in DOMAIN d /\ d["cls"].t = "class"
        THEN [ok |-> TRUE, s |-> d["cls"].name \o " instance"]
        ELSE [ok |-> FALSE, s |-> "AttributeError"]

show(v, st) ==
    CASE v.t = "class" -> [ok |-> TRUE, s |-> v.name]
      [] v.t = "inst" -> LoxInstance_str(v, st)
      [] v.t = "nil" -> [ok |-> TRUE, s |-> "nil"]
      [] v.t = "bool" -> [ok |-> TRUE, s |-> IF v.b THEN "true" ELSE "false"]
      [] v.t = "num" -> [ok |-> TRUE, s |-> ToString(v.n)]
      [] v.t = "fn" -> [ok |-> TRUE, s |-> "<fn " \o v.name \o ">"]
      [] v.t = "str" -> [ok |-> TRUE, s |-> v.s]

\* LoxClass.__init__(self, name): the constructor takes the name and nothing else.
LoxClass(args, st) ==
    IF Len(args) = 1
    THEN Ok([t |-> "class", name |-> args[1], cid |-> st.ncls + 1],
            [st EXCEPT !.ncls = @ + 1])
    ELSE Raise("TypeError", st)

\* LoxClass.__call__(self, *args): LoxInstance(self), whatever the arguments.
LoxClass_call(cls, args, st) ==
    Ok(InstRef(Len(st.insts) + 1),
       [st EXCEPT !.insts = Append(@, [dict |-> [n \in {"cls"} |-> cls], fields |-> {}])])

(*************************** evaluation ************************************)
RECURSIVE Eval(_, _, _)

\* for stmt in stmts: stmt.eval(ctx)
RECURSIVE EvalStmts(_, _, _)
EvalStmts(stmts, ctx, st) ==
    IF stmts = <<>> THEN Ok(Nil, st)
    ELSE LET r == Eval(Head(stmts), ctx, st)
         IN  IF r.k # "ok" THEN r ELSE EvalStmts(Tail(stmts), ctx, r.st)

\* [p.eval(ctx) for p in params]
RECURSIVE EvalArgs(_, _, _, _)
EvalArgs(params, ctx, st, acc) ==
    IF params = <<>> THEN [k |-> "ok", vs |-> acc, e |-> "", st |-> st]
    ELSE LET r == Eval(Head(params), ctx, st)
         IN  IF r.k # "ok" THEN [k |-> r.k, vs |-> acc, e |-> r.e, st |-> r.st]
             ELSE EvalArgs(Tail(params), ctx, r.st, Append(acc, r.v))

BinOp_eval(node, ctx, st) ==
    LET l == Eval(node.left, ctx, st)
    IN  IF l.k # "ok" THEN l
        ELSE LET r == Eval(node.right, ctx, l.st)
             IN  IF r.k # "ok" THEN r ELSE ApplyBin(node.op, l.v, r.v, r.st)

Var_eval(node, ctx, st) ==
    LET f == Ctx_find(st.heap, ctx, node.name)
    IN  IF f = 0 THEN Raise("NameError", st)
        ELSE Ok(st.heap[f].vars[node.name],
                Log(st, "get", f, node.name, st.heap[f].vars[node.name]))

Literal_eval(node, ctx, st) == Ok(node.value, st)

\* And.eval evaluating both operands before it chooses.
And_eval_Eager(node, ctx, st) ==
    LET l == Eval(node.left, ctx, st)
    IN  IF l.k # "ok" THEN l
        ELSE LET x == Eval(node.right, ctx, l.st)
             IN  IF x.k # "ok" THEN x
                 ELSE IF ~truthy(l.v) THEN Ok(l.v, x.st) ELSE x

And_eval(node, ctx, st) ==
    LET l == Eval(node.left, ctx, st)
    IN  IF l.k # "ok" THEN l
        ELSE IF ~truthy(l.v) THEN l
        ELSE Eval(node.right, ctx, l.st)

Or_eval(node, ctx, st) ==
    LET l == Eval(node.left, ctx, st)
    IN  IF l.k # "ok" THEN l
        ELSE IF truthy(l.v) THEN l
        ELSE Eval(node.right, ctx, l.st)

UnaryOp_eval(node, ctx, st) ==
    LET r == Eval(node.operand, ctx, st)
    IN  IF r.k # "ok" THEN r ELSE ApplyUnary(node.op, r.v, r.st)

\* dict(zip(self.params, args, strict=True)): a later duplicate wins.
ZipEnv(params, args) ==
    [n \in Range(params) |->
        LET i == CHOOSE i \in DOMAIN params :
                    /\ params[i] = n
                    /\ \A j \in DOMAIN params : params[j] = n => j <= i
        IN  args[i]]

\* LoxFunction.call without its `except LoxReturn`: the signal leaves the call.
LoxFunction_call_NoCatch(f, args, st) ==
    IF Len(f.params) # Len(args) THEN Raise("ValueError", st)
    ELSE IF st.depth >= MaxDepth THEN Raise("RecursionError", st)
    ELSE LET ctx == Len(st.heap) + 1
             st1 == [Ctx_push(st, f.ctx, ZipEnv(f.params, args), "call")
                        EXCEPT !.depth = @ + 1]
             r == EvalStmts(f.body, ctx, st1)
             st2 == Left([Ctx_pop(r.st, ctx) EXCEPT !.depth = @ - 1], "call", r.k, st.live)
         IN  CASE r.k = "ok" -> Ok(Nil, st2)
               [] r.k \in {"ret", "err"} -> [r EXCEPT !.st = st2]
               [] r.k = "hang" -> r

LoxFunction_call(f, args, st) ==
    IF Len(f.params) # Len(args) THEN Raise("ValueError", st)
    ELSE IF st.depth >= MaxDepth THEN Raise("RecursionError", st)
    ELSE LET ctx == Len(st.heap) + 1
             st1 == [Ctx_push(st, f.ctx, ZipEnv(f.params, args), "call")
                        EXCEPT !.depth = @ + 1]
             r == EvalStmts(f.body, ctx, st1)
             st2 == Left([Ctx_pop(r.st, ctx) EXCEPT !.depth = @ - 1], "call", r.k, st.live)
         IN  CASE r.k = "ret" -> Ok(r.v, st2)
               [] r.k = "ok" -> Ok(Nil, st2)
               [] r.k = "err" -> [r EXCEPT !.st = st2]
               [] r.k = "hang" -> r

Call_eval(node, ctx, st) ==
    LET f == Eval(node.callee, ctx, st)
    IN  IF f.k # "ok" THEN f
        ELSE LET a == EvalArgs(node.params, ctx, f.st, <<>>)
             IN  IF a.k # "ok" THEN [k |-> a.k, v |-> Nil, e |-> a.e, st |-> a.st]
                 ELSE CASE f.v.t = "fn" -> LoxFunction_call(f.v, a.vs, a.st)
                        [] f.v.t = "class" -> LoxClass_call(f.v, a.vs, a.st)
                        [] OTHER -> Raise("TypeError", a.st)

Assign_eval(node, ctx, st) ==
    LET r == Eval(node.value, ctx, st)
    IN  IF r.k # "ok" THEN r
        ELSE IF Ctx_find(r.st.heap, ctx, node.name) = 0 THEN Raise("NameError", r.st)
        ELSE Ok(r.v, Log(Ctx_assign(r.st, ctx, node.name, r.v), "set",
                         Ctx_find(r.st.heap, ctx, node.name), node.name, r.v))

HasProperties(v) == v.t \notin {"nil", "bool", "num", "str", "class", "fn"}

Getattr_eval(node, ctx, st) ==
    LET o == Eval(node.obj, ctx, st)
    IN  IF o.k # "ok" THEN o
        ELSE IF ~HasProperties(o.v) THEN Raise("LoxError", o.st)
        ELSE LET d == o.st.insts[o.v.iid].dict
             IN  IF node.attr \in DOMAIN d THEN Ok(d[node.attr], o.st)
                 ELSE Raise("AttributeError", o.st)

Setattr_eval(node, ctx, st) ==
    LET o == Eval(node.obj, ctx, st)
    IN  IF o.k # "ok" THEN o
        ELSE IF ~HasProperties(o.v) THEN Raise("LoxError", o.st)
        ELSE LET r == Eval(node.value, ctx, o.st)
             IN  IF r.k # "ok" THEN r
                 ELSE Ok(r.v, [r.st EXCEPT
                                 !.insts[o.v.iid].dict = Bind(@, node.attr, r.v),
                                 !.insts[o.v.iid].fields = @ \cup {node.attr}])

Print_eval(node, ctx, st) ==
    LET r == Eval(node.expr, ctx, st)
    IN  IF r.k # "ok" THEN r
        ELSE LET text == show(r.v, r.st)
             IN  IF text.ok
                 THEN Ok(Nil, Log([r.st EXCEPT !.out = Append(@, text.s)],
                                  "print", 0, text.s, Nil))
                 ELSE Raise(text.s, r.st)

Return_eval(node, ctx, st) ==
    IF node.value = None THEN Ret(Nil, st)
    ELSE LET r == Eval(node.value, ctx, st)
         IN  IF r.k # "ok" THEN r ELSE Ret(r.v, r.st)

\* VarDef.eval writing the nearest frame that already binds the name.
VarDef_eval_Nearest(node, ctx, st) ==
    LET r == Eval(node.value, ctx, st)
        f == Ctx_find(r.st.heap, ctx, node.name)
        to == IF f = 0 THEN ctx ELSE f
    IN  IF r.k # "ok" THEN r
        ELSE Ok(Nil, Log(Ctx_var_def(r.st, to, node.name, r.v), "def", to, node.name, r.v))

VarDef_eval(node, ctx, st) ==
    LET r == Eval(node.value, ctx, st)
    IN  IF r.k # "ok" THEN r
        ELSE Ok(Nil, Log(Ctx_var_def(r.st, ctx, node.name, r.v), "def", ctx, node.name, r.v))

If_eval(node, ctx, st) ==
    LET c == Eval(node.cond, ctx, st)
    IN  IF c.k # "ok" THEN c
        ELSE IF truthy(c.v)
             THEN LET r == Eval(node.then_branch, ctx, c.st)
                  IN  IF r.k = "ok" THEN Ok(Nil, r.st) ELSE r
        ELSE IF node.else_branch # None
             THEN LET r == Eval(node.else_branch, ctx, c.st)
                  IN  IF r.k = "ok" THEN Ok(Nil, r.st) ELSE r
        ELSE Ok(Nil, c.st)

\* while truthy(self.cond.eval(ctx)): self.body.eval(ctx)
RECURSIVE While_loop(_, _, _, _)
While_loop(node, ctx, st, fuel) ==
    LET c == Eval(node.cond, ctx, st)
    IN  IF c.k # "ok" THEN c
        ELSE IF ~truthy(c.v) THEN Ok(Nil, c.st)
        ELSE IF fuel = 0 THEN Hang(c.st)
        ELSE LET r == Eval(node.body, ctx, c.st)
             IN  IF r.k # "ok" THEN r ELSE While_loop(node, ctx, r.st, fuel - 1)

While_eval(node, ctx, st) == While_loop(node, ctx, st, MaxLoop)

\* Block.eval without its `finally`: the frame is popped on normal completion only.
Block_eval_NoFinally(node, ctx, st) ==
    LET inner == Len(st.heap) + 1
        r == EvalStmts(node.stmts, inner, Ctx_push(st, ctx, EmptyScope, "block"))
    IN  CASE r.k = "ok" -> Ok(Nil, Left(Ctx_pop(r.st, inner), "block", r.k, st.live))
          [] r.k \in {"ret", "err"} -> [r EXCEPT !.st = Left(r.st, "block", r.k, st.live)]
          [] r.k = "hang" -> r

Block_eval(node, ctx, st) ==
    LET inner == Len(st.heap) + 1
        r == EvalStmts(node.stmts, inner, Ctx_push(st, ctx, EmptyScope, "block"))
        done == Left(Ctx_pop(r.st, inner), "block", r.k, st.live)
    IN  CASE r.k = "ok" -> Ok(Nil, done)
          [] r.k \in {"ret", "err"} -> [r EXCEPT !.st = done]
          [] r.k = "hang" -> r

Function_eval(node, ctx, st) ==
    LET func == LoxFunction(node.name, node.params, node.body.stmts, ctx)
    IN  Ok(func, Log(Ctx_var_def(st, ctx, node.name, func), "def", ctx, node.name, func))

\* methods[method.name] = LoxFunction(..., ctx=method_ctx), a later duplicate wins.
MethodTable(methods, method_ctx) ==
    [n \in {methods[i].name : i \in DOMAIN methods} |->
        LET i == CHOOSE i \in DOMAIN methods :
                    /\ methods[i].name = n
                    /\ \A j \in DOMAIN methods : methods[j].name = n => j <= i
        IN  LoxFunction(n, methods[i].params, methods[i].body.stmts, method_ctx)]

Class_eval(node, ctx, st) ==
    LET f == Ctx_find(st.heap, ctx, node.base)
        value == st.heap[f].vars[node.base]
    IN  IF node.base # NoBase /\ f = 0 THEN Raise("NameError", st)
        ELSE IF node.base # NoBase /\ value.t # "class" THEN Raise("LoxError", st)
        ELSE LET withsuper == node.base # NoBase
                 st1 == IF withsuper
                        THEN Ctx_push(st, ctx, [n \in {"super"} |-> value], "class")
                        ELSE st
                 method_ctx == IF withsuper THEN Len(st.heap) + 1 ELSE ctx
                 methods == MethodTable(node.methods, method_ctx)
                 c == LoxClass(<<node.name, methods, IF withsuper THEN value ELSE Nil>>, st1)
             IN  IF c.k # "ok" THEN c
                 ELSE Ok(c.v, Log(Ctx_var_def(c.st, ctx, node.name, c.v),
                                  "def", ctx, node.name, c.v))

Eval(node, ctx, st) ==
    CASE node.type = "Literal" -> Literal_eval(node, ctx, st)
      [] node.type = "Var" -> Var_eval(node, ctx, st)
      [] node.type = "BinOp" -> BinOp_eval(node, ctx, st)
      [] node.type = "And" -> And_eval(node, ctx, st)
      [] node.type = "Or" -> Or_eval(node, ctx, st)
      [] node.type = "UnaryOp" -> UnaryOp_eval(node, ctx, st)
      [] node.type = "Call" -> Call_eval(node, ctx, st)
      [] node.type = "Assign" -> Assign_eval(node, ctx, st)
      [] node.type = "Getattr" -> Getattr_eval(node, ctx, st)
      [] node.type = "Setattr" -> Setattr_eval(node, ctx, st)
      [] node.type = "Print" -> Print_eval(node, ctx, st)
      [] node.type = "Return" -> Return_eval(node, ctx, st)
      [] node.type = "VarDef" -> VarDef_eval(node, ctx, st)
      [] node.type = "If" -> If_eval(node, ctx, st)
      [] node.type = "While" -> While_eval(node, ctx, st)
      [] node.type = "Block" -> Block_eval(node, ctx, st)
      [] node.type = "Function" -> Function_eval(node, ctx, st)
      [] node.type = "Class" -> Class_eval(node, ctx, st)


(*************************** transformer ***********************************)
\* The rules of LoxTransformer, each building the node its grammar rule stands for.
program(stmts) == [type |-> "Program", stmts |-> stmts]
op_handler(op, left, right) == BinOp(left, right, op)
or_(left, right) == Or(left, right)
and_(left, right) == And(left, right)

\* call folds a chain of suffixes, <<"args", params>> or <<"attr", name>>, to the left.
RECURSIVE call(_, _)
call(callee, suffixes) ==
    IF suffixes = <<>> THEN callee
    ELSE LET kind == Head(suffixes)[1]
             value == Head(suffixes)[2]
         IN  call(IF kind = "args" THEN Call(callee, value) ELSE Getattr(callee, value),
                  Tail(suffixes))

args(params) == <<"args", params>>
attr(name) == <<"attr", name.name>>
print_cmd(expr) == PrintStmt(expr)
block(stmts) == Block(stmts)
if_cmd(cond, then_branch, else_branch) == If(cond, then_branch, else_branch)
while_cmd(cond, body) == While(cond, body)
var_decl(name, value) == VarDef(name.name, IF value = None THEN Literal(Nil) ELSE value)
VAR(token) == Var(token)
NUMBER(token) == Literal(N(token))
STRING_(text) == Literal(S(text))
NIL == Literal(Nil)
BOOL(token) == Literal(B(token = "true"))
not_(value) == UnaryOp("lambda x: not x", value)
assign_expr(target, value) ==
    IF target.type = "Var" THEN Assign(target.name, value)
    ELSE Setattr(target.obj, target.attr, value)
expr_stmt(expr) == expr
empty_init == Literal(Nil)
maybe_cond(cond) == IF cond = None THEN Literal(B(TRUE)) ELSE cond
maybe_incr(incr) == IF incr = None THEN Literal(Nil) ELSE incr
for_init(stmt) == stmt

\* for_cmd with the increment put before the body.
for_cmd_IncrFirst(init, cond, incr, body) ==
    LET loop_body == Block(<<incr, body>>)
        while_stmt == While(cond, loop_body)
    IN  Block(<<init, while_stmt>>)

for_cmd(init, cond, incr, body) ==
    LET loop_body == Block(<<body, incr>>)
        while_stmt == While(cond, loop_body)
    IN  Block(<<init, while_stmt>>)

function(name, params, body) == Function(name.name, params, body)
param_list(names) == [i \in DOMAIN names |-> names[i].name]
return_cmd(value) == Return(value)

(*************************** the driver ************************************)
\* The top-level context of a run is frame 1.
Global == 1

Store == [heap |-> heap, insts |-> insts, ncls |-> ncls, out |-> out,
          live |-> live, exits |-> exits, depth |-> 0, trace |-> <<>>]

InitStore == [heap |-> <<[vars |-> EmptyScope, parent |-> 0]>>, insts |-> <<>>,
              ncls |-> 0, out |-> <<>>, live |-> <<>>, exits |-> {}, depth |-> 0,
              trace |-> <<>>]

NoCase == [tree |-> None, verdict |-> "none", errors |-> {}]

Init ==
    /\ heap = InitStore.heap
    /\ insts = <<>>
    /\ ncls = 0
    /\ out = <<>>
    /\ live = <<>>
    /\ exits = {}
    /\ status = "running"
    /\ count = 0
    /\ last = [stmt |-> None, before |-> InitStore, k |-> "ok", v |-> Nil, e |-> "",
               trace |-> <<>>]
    /\ vcase = NoCase

\* Program.eval, one turn of its loop: stmt.eval(ctx) in the top-level context.
\* An exception (or a LoxReturn) that leaves the statement ends the run.
Program_eval_step(stmt) ==
    /\ status = "running"
    /\ count < MaxStmts
    /\ LET r == Eval(stmt, Global, Store)
       IN  /\ heap' = r.st.heap
           /\ insts' = r.st.insts
           /\ ncls' = r.st.ncls
           /\ out' = r.st.out
           /\ live' = r.st.live
           /\ exits' = r.st.exits
           /\ status' = CASE r.k = "ok" -> "running"
                          [] r.k = "err" -> "failed"
                          [] r.k = "ret" -> "returned"
                          [] r.k = "hang" -> "hung"
           /\ last' = [stmt |-> stmt, before |-> Store, k |-> r.k, v |-> r.v, e |-> r.e,
                       trace |-> r.st.trace]
    /\ count' = count + 1
    /\ UNCHANGED vcase

(*************************** programs: scopes and calls ********************)
a == VAR("a")
b == VAR("b")
f == VAR("f")
g == VAR("g")
i == VAR("i")
p == VAR("p")
r == VAR("r")
nope == VAR("nope")

TopVarDefs == {var_decl(a, NUMBER(1)), var_decl(a, None)}

\* { var a = 2; var b = 3; }   { var b = 3; a = 5; }   { { var b = 1; nope; } }
\* { var a = 2; { var a = 3; a = 4; } b = a; }
BlockShadow == block(<<var_decl(a, NUMBER(2)), var_decl(b, NUMBER(3))>>)
BlockAssign == block(<<var_decl(b, NUMBER(3)), assign_expr(a, NUMBER(5))>>)
BlockFail == block(<<block(<<var_decl(b, NUMBER(1)), expr_stmt(nope)>>)>>)
BlockNested ==
    block(<<var_decl(a, NUMBER(2)),
            block(<<var_decl(a, NUMBER(3)), assign_expr(a, NUMBER(4))>>),
            print_cmd(a)>>)
\* { a = 5; var a = 2; }   { var a = 2; f(a); }
BlockAssignDecl == block(<<expr_stmt(assign_expr(a, NUMBER(5))), var_decl(a, NUMBER(2))>>)
BlockCall == block(<<var_decl(a, NUMBER(2)), expr_stmt(call(f, <<args(<<a>>)>>))>>)
TopBlocks == {BlockShadow, BlockAssign, BlockFail, BlockNested, BlockAssignDecl, BlockCall}

\* fun f(p) { if (p) { return 1; } print "after"; }
FunIf ==
    function(f, param_list(<<p>>),
        block(<<if_cmd(p, block(<<return_cmd(NUMBER(1))>>), None),
                print_cmd(STRING_("after"))>>))
\* fun f(p) { while (p) { { return; } } print "after"; return 2; }
FunWhile ==
    function(f, param_list(<<p>>),
        block(<<while_cmd(p, block(<<block(<<return_cmd(None)>>)>>)),
                print_cmd(STRING_("after")),
                return_cmd(NUMBER(2))>>))
\* fun f(p) { { var b = p; nope; } print "after"; }
FunFail ==
    function(f, param_list(<<p>>),
        block(<<block(<<var_decl(b, p), expr_stmt(nope)>>),
                print_cmd(STRING_("after"))>>))
\* fun g(p) { var r = f(p); print "outer"; return r; }
FunOuter ==
    function(g, param_list(<<p>>),
        block(<<var_decl(r, call(f, <<args(<<p>>)>>)),
                print_cmd(STRING_("outer")),
                return_cmd(r)>>))
\* fun g(p) { return g(p); }
FunRec ==
    function(g, param_list(<<p>>),
        block(<<return_cmd(call(g, <<args(<<p>>)>>))>>))
\* fun f(p) { a = 9; }
FunSet == function(f, param_list(<<p>>), block(<<expr_stmt(assign_expr(a, NUMBER(9)))>>))
\* fun g(p) { { var b = p; } f(false); var r = f(p); { nope; } }
FunAll ==
    function(g, param_list(<<p>>),
        block(<<block(<<var_decl(b, p)>>),
                expr_stmt(call(f, <<args(<<BOOL("false")>>)>>)),
                var_decl(r, call(f, <<args(<<p>>)>>)),
                block(<<expr_stmt(nope)>>)>>))
TopFunctions == {FunIf, FunWhile, FunFail, FunOuter, FunRec, FunSet, FunAll}

ArgLists == {<<>>, <<BOOL("true")>>, <<BOOL("false")>>, <<BOOL("true"), NUMBER(1)>>}
TopCalls == {expr_stmt(call(fn, <<args(al)>>)) : fn \in {f, g}, al \in ArgLists}

\* for (var i = 0; i < 2; i = i + 1) print i;   the same with the bound 0;
\* for (;;) with everything defaulted would not end, so the condition is kept.
ForCount(n) ==
    for_cmd(for_init(var_decl(i, NUMBER(0))),
            maybe_cond(op_handler("lt", i, NUMBER(n))),
            maybe_incr(assign_expr(i, op_handler("add", i, NUMBER(1)))),
            print_cmd(i))
\* for (a = 0; a < 2; a = a + 1) { var i = a; print i; }
ForOuter ==
    for_cmd(for_init(expr_stmt(assign_expr(a, NUMBER(0)))),
            maybe_cond(op_handler("lt", a, NUMBER(2))),
            maybe_incr(assign_expr(a, op_handler("add", a, NUMBER(1)))),
            block(<<var_decl(i, a), print_cmd(i)>>))
\* for (var i = 0; ; ) print i;
ForEver ==
    for_cmd(for_init(var_decl(i, NUMBER(0))), maybe_cond(None), maybe_incr(None),
            print_cmd(i))
TopFors == {ForCount(0), ForCount(1), ForCount(2), ForOuter, ForEver}

ExecVarDef ==
    /\ status = "running"
    /\ \E s \in TopVarDefs : Program_eval_step(s)
ExecBlock ==
    /\ status = "running"
    /\ \E s \in TopBlocks : Program_eval_step(s)
ExecFunction ==
    /\ status = "running"
    /\ \E s \in TopFunctions : Program_eval_step(s)
ExecCall ==
    /\ status = "running"
    /\ \E s \in TopCalls : Program_eval_step(s)
ExecFor ==
    /\ status = "running"
    /\ \E s \in TopFors : Program_eval_step(s)

Next == ExecVarDef \/ ExecBlock \/ ExecFunction \/ ExecCall \/ ExecFor

Spec == Init /\ [][Next]_vars


(*************************** claims: scopes and calls **********************)
\* What the statement evaluated last found and left in the top-level frame.
Outer == last.before.heap[Global].vars
OuterNow == heap[Global].vars
Printed == SubSeq(out, Len(last.before.out) + 1, Len(out))

\* The top-level name was bound, before the statement, to the function decl declares.
Bound(name, decl) ==
    /\ name.name \in DOMAIN Outer
    /\ Outer[name.name] = LoxFunction(decl.name, decl.params, decl.body.stmts, Global)

Called(fn, al) == last.stmt = expr_stmt(call(fn, <<args(al)>>))
Result(v, lines) == last.k = "ok" /\ last.v = v /\ Printed = lines
PendingScopes == {j \in DOMAIN live : live[j][2] \in {"block", "call"}}

\* C1: every frame pushed by a Block evaluation or a function call is popped on
\* every exit path (normal completion, runtime failure, return signal): each
\* block and call body left so far gave its caller back the pushed-frame stack
\* it had on entry, no block or call frame stays pushed once the top-level
\* statement is over, and the top-level chain has the frames it had before.
C1_FramesPoppedOnEveryExit ==
    /\ \A x \in exits : x[3]
    /\ status # "hung" => PendingScopes = {}
    /\ Ctx_chain(heap, Global) = Ctx_chain(last.before.heap, Global)

\* A run in which block and call bodies were left in all three ways.
C1_Witness ==
    /\ {<<by, k, TRUE>> : by \in {"block", "call"}, k \in {"ok", "ret", "err"}} \subseteq exits
    /\ status = "failed"
    /\ live = <<>>

\* C2: a return executed anywhere in a body (inside nested blocks, an if branch,
\* a while loop) ends that call: nothing after it in the body runs, the call
\* evaluates to the carried value (nil for a bare return and for a body that
\* ends without one), and the signal stops at the nearest call: the outer call
\* goes on, and the driver never sees the signal.
C2_ReturnEndsTheCall ==
    /\ status # "returned"
    /\ last.k # "ret"
    /\ Bound(f, FunIf) /\ Called(f, <<BOOL("true")>>) => Result(N(1), <<>>)
    /\ Bound(f, FunIf) /\ Called(f, <<BOOL("false")>>) => Result(Nil, <<"after">>)
    /\ Bound(f, FunWhile) /\ Called(f, <<BOOL("true")>>) => Result(Nil, <<>>)
    /\ Bound(f, FunWhile) /\ Called(f, <<BOOL("false")>>) => Result(N(2), <<"after">>)
    /\ Bound(g, FunOuter) /\ Bound(f, FunIf) /\ Called(g, <<BOOL("true")>>)
            => Result(N(1), <<"outer">>)
    /\ Bound(g, FunOuter) /\ Bound(f, FunIf) /\ Called(g, <<BOOL("false")>>)
            => Result(Nil, <<"after", "outer">>)
    /\ Bound(g, FunOuter) /\ Bound(f, FunWhile) /\ Called(g, <<BOOL("true")>>)
            => Result(Nil, <<"outer">>)
    /\ Bound(g, FunOuter) /\ Bound(f, FunWhile) /\ Called(g, <<BOOL("false")>>)
            => Result(N(2), <<"after", "outer">>)

\* The inner call returned from inside a while loop and two blocks, the outer went on.
C2_Witness ==
    /\ Bound(g, FunOuter) /\ Bound(f, FunWhile) /\ Called(g, <<BOOL("true")>>)
    /\ last.k = "ok"
    /\ <<"block", "ret", TRUE>> \in exits

\* A block (a counted loop is one) was evaluated as a top-level statement and left.
TopBlockRan == last.stmt.type = "Block" /\ last.k \in {"ok", "err"}
Declared(blk) ==
    {blk.stmts[j].name : j \in {k \in DOMAIN blk.stmts : blk.stmts[k].type = "VarDef"}}
Wrote(ev, frame, name) ==
    \E j \in DOMAIN last.trace :
        /\ last.trace[j].ev = ev
        /\ last.trace[j].frame = frame
        /\ last.trace[j].name = name

\* C3 as stated: after a block, no name is newly bound outside, and every name
\* the block declared has the value its outer binding had before the block.
C3_ShadowedKeepOuterValue ==
    TopBlockRan =>
        /\ DOMAIN OuterNow = DOMAIN Outer
        /\ \A n \in Declared(last.stmt) \cap DOMAIN Outer : OuterNow[n] = Outer[n]

\* C3 amended: a declaration executed inside a block writes only frames made
\* inside the block (the block's own for its direct declarations), so after
\* the block no name is newly bound outside; an outer binding has another value
\* only when a reassignment resolved to the outer frame.
C3_DeclarationsStayInside ==
    TopBlockRan =>
        /\ DOMAIN OuterNow = DOMAIN Outer
        /\ \A j \in DOMAIN last.trace :
              last.trace[j].ev = "def" => last.trace[j].frame > Len(last.before.heap)
        /\ last.k = "ok" =>
              Declared(last.stmt) \subseteq DOMAIN heap[Len(last.before.heap) + 1].vars
        /\ \A n \in DOMAIN Outer : OuterNow[n] # Outer[n] => Wrote("set", Global, n)

\* A block shadowed a bound top-level name and the outer value is back.
C3_Witness ==
    /\ last.stmt = BlockNested
    /\ last.k = "ok"
    /\ "a" \in DOMAIN Outer
    /\ OuterNow["a"] = Outer["a"]
    /\ Printed = <<"2">>

\* The statement was a call of a bound function with another number of arguments.
ArityMismatch ==
    /\ last.stmt.type = "Call"
    /\ last.stmt.callee.type = "Var"
    /\ last.stmt.callee.name \in DOMAIN Outer
    /\ Outer[last.stmt.callee.name].t = "fn"
    /\ Len(Outer[last.stmt.callee.name].params) # Len(last.stmt.params)

\* C4: a call with the wrong number of arguments fails with the generic language
\* failure (the kind an operator type mismatch raises, LoxError), no statement
\* of the body runs and the scope chain is as before the call.
C4_ArityMismatchIsLoxError ==
    ArityMismatch =>
        /\ last.k = "err"
        /\ last.e = "LoxError"
        /\ Printed = <<>>
        /\ heap = last.before.heap
        /\ live = last.before.live

\* The events of for (var i = 0; i < n; i = i + 1) print i; from iteration k on,
\* the loop's frame being F: condition; body; increment; ...; the last condition.
RECURSIVE ForEvents(_, _, _)
ForEvents(F, k, n) ==
    IF k < n
    THEN <<Event("get", F, "i", N(k)),
           Event("get", F, "i", N(k)), Event("print", 0, ToString(k), Nil),
           Event("get", F, "i", N(k)), Event("set", F, "i", N(k + 1))>>
         \o ForEvents(F, k + 1, n)
    ELSE <<Event("get", F, "i", N(k))>>

\* C10: a counted loop is Block[init, While(cond, Block[body, incr])]: the
\* initializer runs once, then condition, body, increment in that order until
\* the condition is falsy (it is checked before the first iteration too), the
\* initializer's variable is seen by all three in every iteration and is
\* unresolved after the loop.
C10_CountedLoopDesugaring ==
    \A n \in 0..2 :
        /\ ForCount(n).type = "Block"
        /\ ForCount(n).stmts[1] = VarDef("i", Literal(N(0)))
        /\ ForCount(n).stmts[2] =
              While(BinOp(i, Literal(N(n)), "lt"),
                    Block(<<PrintStmt(i), Assign("i", BinOp(i, Literal(N(1)), "add"))>>))
        /\ last.stmt = ForCount(n) =>
              /\ last.k = "ok"
              /\ last.trace = <<Event("def", Len(last.before.heap) + 1, "i", N(0))>>
                              \o ForEvents(Len(last.before.heap) + 1, 0, n)
              /\ Ctx_find(heap, Global, "i") = 0
              /\ heap[Len(last.before.heap) + 1].vars = [x \in {"i"} |-> N(n)]

\* The loop of two iterations ran: it printed 0 and 1.
C10_Witness ==
    /\ last.stmt = ForCount(2)
    /\ Printed = <<"0", "1">>
    /\ status = "running"


(*************************** programs: classes and instances ***************)
A == VAR("A")
Bc == VAR("B")
m == VAR("m")
fld == VAR("fld")
cls == VAR("cls")

\* The host builds a class with the runtime's constructor, LoxClass(name), and
\* declares it in the top-level context before the program runs.
HostClass ==
    /\ status = "running"
    /\ count = 0
    /\ ncls = 0
    /\ LET c == LoxClass(<<"A">>, Store)
       IN  /\ c.k = "ok"
           /\ heap' = Ctx_var_def(c.st, Global, "A", c.v).heap
           /\ ncls' = c.st.ncls
    /\ UNCHANGED <<insts, out, live, exits, status, count, last, vcase>>

\* m() { return 1; }
MethodM == Function("m", <<>>, Block(<<Return(Literal(N(1)))>>))
\* class A {}   class B { m() { return 1; } }   class B < A { m() { return 1; } }
\* class B < a {}
TopClasses ==
    {Class("A", <<>>, NoBase), Class("B", <<MethodM>>, NoBase),
     Class("B", <<MethodM>>, "A"), Class("B", <<>>, "a")}

\* var a = A();   var b = A();   var a = 1;
ObjVarDefs ==
    {var_decl(a, call(A, <<args(<<>>)>>)), var_decl(b, call(A, <<args(<<>>)>>)),
     var_decl(a, NUMBER(1))}

\* a.fld;  a.m;  a.cls;  b.fld;  A.fld;
TopGetattrs ==
    {expr_stmt(call(o, <<attr(n)>>)) : o \in {a, b}, n \in {fld, m, cls}}
        \cup {expr_stmt(call(A, <<attr(fld)>>))}

\* a.fld = 1;  a.fld = "s";  a.m = 2;  a.cls = 3;  b.fld = 1;
TopSetattrs ==
    {expr_stmt(assign_expr(call(a, <<attr(fld)>>), NUMBER(1))),
     expr_stmt(assign_expr(call(a, <<attr(fld)>>), STRING_("s"))),
     expr_stmt(assign_expr(call(a, <<attr(m)>>), NUMBER(2))),
     expr_stmt(assign_expr(call(a, <<attr(cls)>>), NUMBER(3))),
     expr_stmt(assign_expr(call(b, <<attr(fld)>>), NUMBER(1)))}

\* print a;  print A;
ObjPrints == {print_cmd(a), print_cmd(A)}

ExecClass ==
    /\ status = "running"
    /\ \E s \in TopClasses : Program_eval_step(s)
ExecObjVarDef ==
    /\ status = "running"
    /\ \E s \in ObjVarDefs : Program_eval_step(s)
ExecGetattr ==
    /\ status = "running"
    /\ \E s \in TopGetattrs : Program_eval_step(s)
ExecSetattr ==
    /\ status = "running"
    /\ \E s \in TopSetattrs : Program_eval_step(s)
ExecObjPrint ==
    /\ status = "running"
    /\ \E s \in ObjPrints : Program_eval_step(s)

NextObj ==
    HostClass \/ ExecClass \/ ExecObjVarDef \/ ExecGetattr \/ ExecSetattr \/ ExecObjPrint

SpecObj == Init /\ [][NextObj]_vars

(*************************** claims: classes and instances *****************)
\* The statement was a class declaration whose base is absent or names a class.
ClassWithGoodBase ==
    /\ last.stmt.type = "Class"
    /\ \/ last.stmt.base = NoBase
       \/ /\ last.stmt.base \in DOMAIN Outer
          /\ Outer[last.stmt.base].t = "class"

\* C5: a class declaration whose base is absent or resolves to a class value
\* completes without failure and leaves its own name bound, in the current
\* scope, to a runtime class of that name.
C5_ClassDeclarationBindsClass ==
    ClassWithGoodBase =>
        /\ last.k = "ok"
        /\ last.stmt.name \in DOMAIN OuterNow
        /\ OuterNow[last.stmt.name].t = "class"
        /\ OuterNow[last.stmt.name].name = last.stmt.name

\* The method names a class object holds: LoxClass keeps its name and nothing else.
LoxClass_methods(c) == {}

\* The statement was a property read on a variable bound to an instance.
ReadOnInstance ==
    /\ last.stmt.type = "Getattr"
    /\ last.stmt.obj.type = "Var"
    /\ last.stmt.obj.name \in DOMAIN Outer
    /\ Outer[last.stmt.obj.name].t = "inst"
ReadInstance == last.before.insts[Outer[last.stmt.obj.name].iid]

\* C6: a property read on an instance returns the field of that name when it
\* was set; otherwise the method of that name from the class chain, bound to
\* the instance; it fails only when there is neither.
C6_PropertyRead ==
    ReadOnInstance =>
        IF last.stmt.attr \in ReadInstance.fields
        THEN last.k = "ok" /\ last.v = ReadInstance.dict[last.stmt.attr]
        ELSE IF last.stmt.attr \in LoxClass_methods(ReadInstance.dict["cls"])
        THEN last.k = "ok" /\ last.v.t = "fn"
        ELSE last.k = "err"

\* The statement was a property write on a variable bound to an instance, and
\* it completed.
WroteOnInstance ==
    /\ last.stmt.type = "Setattr"
    /\ last.stmt.obj.type = "Var"
    /\ last.stmt.obj.name \in DOMAIN Outer
    /\ Outer[last.stmt.obj.name].t = "inst"
    /\ last.k = "ok"
Written == Outer[last.stmt.obj.name]

\* C11: a property write on an instance, whatever the field name (cls
\* included), leaves the instance's reference to its class, its display form
\* "NAME instance" and every other instance as they were, and a read of the
\* same name on the same instance returns the value written.
C11_WriteChangesOnlyTheFieldMap ==
    WroteOnInstance =>
        /\ insts[Written.iid].dict["cls"] = last.before.insts[Written.iid].dict["cls"]
        /\ LoxInstance_str(Written, Store) = LoxInstance_str(Written, last.before)
        /\ \A j \in DOMAIN insts : j # Written.iid => insts[j] = last.before.insts[j]
        /\ LET read == Getattr_eval(Getattr(last.stmt.obj, last.stmt.attr), Global, Store)
           IN  read.k = "ok" /\ read.v = last.v

(*************************** programs: operators ***************************)
LitValues == {Nil, B(TRUE), B(FALSE), N(0), N(1), S(""), S("s")}

\* var a = <literal>;   var b = 0;
OpVarDefs == {VarDef("a", Literal(v)) : v \in LitValues} \cup {var_decl(b, NUMBER(0))}

\* !<literal>;   !a;
TopNots == {expr_stmt(not_(Literal(v))) : v \in LitValues} \cup {expr_stmt(not_(a))}

\* b = b + 1
Incr == assign_expr(b, op_handler("add", b, NUMBER(1)))
Lefts == {a} \cup {Literal(v) : v \in {Nil, B(FALSE), N(0), S("s")}}
Rights == {Incr, nope}
\* <left> and <right>;   <left> or <right>;
TopLogic ==
    {expr_stmt(and_(l, x)) : l \in Lefts, x \in Rights}
        \cup {expr_stmt(or_(l, x)) : l \in Lefts, x \in Rights}

ExecOpVarDef ==
    /\ status = "running"
    /\ \E s \in OpVarDefs : Program_eval_step(s)
ExecNot ==
    /\ status = "running"
    /\ \E s \in TopNots : Program_eval_step(s)
ExecLogic ==
    /\ status = "running"
    /\ \E s \in TopLogic : Program_eval_step(s)

NextExpr == ExecOpVarDef \/ ExecNot \/ ExecLogic

SpecExpr == Init /\ [][NextExpr]_vars

(*************************** claims: operators *****************************)
\* C7: the negation the transformer builds yields, for every value, the opposite
\* of its truthiness: true exactly for nil and false, false for every other
\* value, the number zero and the empty string among them.
C7_NotIsOppositeOfTruthiness ==
    \A v \in LitValues :
        last.stmt = expr_stmt(not_(Literal(v))) =>
            last.k = "ok" /\ last.v = B(v \in {Nil, B(FALSE)})

\* The statement was <left> op <right> and its left operand has a value.
Logic(op) ==
    /\ last.stmt.type = op
    /\ last.stmt.left.type = "Var" => "a" \in DOMAIN Outer
LeftValue == IF last.stmt.left.type = "Var" THEN Outer["a"] ELSE last.stmt.left.value
LeftEvents ==
    IF last.stmt.left.type = "Var" THEN <<Event("get", Global, "a", Outer["a"])>> ELSE <<>>
\* Left alone was evaluated: its raw value is the result, nothing else happened.
ShortCircuited ==
    /\ last.k = "ok"
    /\ last.v = LeftValue
    /\ last.trace = LeftEvents
    /\ heap = last.before.heap
\* Right was evaluated once, after left, and its raw value or its failure is the result.
RightDecided ==
    IF last.stmt.right = Incr /\ "b" \in DOMAIN Outer /\ Outer["b"].t = "num"
    THEN /\ last.k = "ok"
         /\ last.v = N(Outer["b"].n + 1)
         /\ last.trace = LeftEvents \o <<Event("get", Global, "b", Outer["b"]),
                                         Event("set", Global, "b", N(Outer["b"].n + 1))>>
         /\ OuterNow["b"] = N(Outer["b"].n + 1)
    ELSE /\ last.k = "err"
         /\ last.e = "NameError"
         /\ last.trace = LeftEvents
         /\ heap = last.before.heap

\* C8: AND returns its left operand's raw value without evaluating the right one
\* when the left is falsy (nil or false), OR does so when the left is truthy;
\* otherwise the right operand is evaluated exactly once, after the left, and
\* its raw value is the result.
C8_ShortCircuit ==
    /\ Logic("And") => IF LeftValue \in {Nil, B(FALSE)} THEN ShortCircuited ELSE RightDecided
    /\ Logic("Or") => IF LeftValue \in {Nil, B(FALSE)} THEN RightDecided ELSE ShortCircuited

\* false and nope: the unresolved right operand was not evaluated; and
\* 0 and (b = b + 1) gave the right operand's number.
C8_Witness ==
    /\ last.stmt = expr_stmt(and_(a, Incr))
    /\ "a" \in DOMAIN Outer /\ Outer["a"] = N(0)
    /\ last.k = "ok"
    /\ last.v = N(1)
    /\ Len(last.trace) = 3


(*************************** validation ************************************)
KEYWORDS ==
    {"and", "class", "else", "false", "for", "fun", "if", "nil", "or", "print",
     "return", "super", "this", "true", "var", "while"}

\* The child nodes of a node: its fields that are nodes, lists of nodes included.
Children(node) ==
    CASE node.type \in {"Program", "Block"} -> node.stmts
      [] node.type \in {"BinOp", "And", "Or"} -> <<node.left, node.right>>
      [] node.type = "UnaryOp" -> <<node.operand>>
      [] node.type = "Call" -> <<node.callee>> \o node.params
      [] node.type \in {"Assign", "VarDef"} -> <<node.value>>
      [] node.type = "Getattr" -> <<node.obj>>
      [] node.type = "Setattr" -> <<node.obj, node.value>>
      [] node.type = "Print" -> <<node.expr>>
      [] node.type = "Return" -> IF node.value = None THEN <<>> ELSE <<node.value>>
      [] node.type = "If" ->
            <<node.cond, node.then_branch>>
                \o (IF node.else_branch = None THEN <<>> ELSE <<node.else_branch>>)
      [] node.type = "While" -> <<node.cond, node.body>>
      [] node.type = "Function" -> <<node.body>>
      [] node.type = "Class" -> node.methods
      [] OTHER -> <<>>

\* A cursor is a node with its ancestors, the nearest first; node.cursor() is a
\* cursor with none.
Cursor(node, parents) == [node |-> node, parents |-> parents]
Node_cursor(node) == Cursor(node, <<>>)
Cursor_children(c) ==
    {Cursor(Children(c.node)[j], <<c.node>> \o c.parents) : j \in DOMAIN Children(c.node)}

\* All positions beneath the cursor's own.
RECURSIVE Cursor_descendants(_)
Cursor_descendants(c) ==
    UNION {{d} \cup Cursor_descendants(d) : d \in Cursor_children(c)}

Cursor_parent(c) == Cursor(c.parents[1], Tail(c.parents))

Cursor_is_scoped_to(c, kind) == \E j \in DOMAIN c.parents : c.parents[j].type = kind

\* The cursor of the nearest enclosing function.
Cursor_function_scope(c) ==
    LET j == CHOOSE k \in DOMAIN c.parents :
                 /\ c.parents[k].type = "Function"
                 /\ \A l \in 1..(k - 1) : c.parents[l].type # "Function"
    IN  Cursor(c.parents[j], SubSeq(c.parents, j + 1, Len(c.parents)))

\* A check returns, or raises a SemanticError with a message (written here
\* without its diacritics) and a token.
Valid == [ok |-> TRUE, msg |-> "", token |-> ""]
SemanticError(msg, token) == [ok |-> FALSE, msg |-> msg, token |-> token]

Var_validate_self(self, cursor) ==
    IF self.name \in KEYWORDS THEN SemanticError("nome invalido", self.name) ELSE Valid

VarDef_validate_self(self, cursor) ==
    IF self.name \in KEYWORDS THEN SemanticError("nome invalido", self.name)
    ELSE IF Cursor_parent(cursor).node.type = "Program" THEN Valid
    ELSE IF \E desc \in Cursor_descendants(Node_cursor(self.value)) :
                desc.node.type = "Var" /\ desc.node.name = self.name
    THEN SemanticError("variavel usada em seu proprio inicializador", self.name)
    ELSE Valid

Block_validate_self(self, cursor) ==
    LET decls == {j \in DOMAIN self.stmts : self.stmts[j].type = "VarDef"}
        dup == {j \in decls : \E k \in decls : k < j /\ self.stmts[k].name = self.stmts[j].name}
    IN  IF dup = {} THEN Valid
        ELSE SemanticError("variavel duplicada",
                           self.stmts[CHOOSE j \in dup : \A k \in dup : j <= k].name)

Function_validate_self(self, cursor) ==
    LET kw == {j \in DOMAIN self.params : self.params[j] \in KEYWORDS}
        rep == {j \in DOMAIN self.params :
                    \E k \in DOMAIN self.params : k < j /\ self.params[k] = self.params[j]}
        body_vars == {j \in DOMAIN self.body.stmts :
                        /\ self.body.stmts[j].type = "VarDef"
                        /\ self.body.stmts[j].name \in Range(self.params)}
    IN  IF kw # {}
        THEN SemanticError("nome invalido", self.params[CHOOSE j \in kw : \A k \in kw : j <= k])
        ELSE IF rep # {}
        THEN SemanticError("parametro duplicado",
                           self.params[CHOOSE j \in rep : \A k \in rep : j <= k])
        ELSE IF body_vars # {}
        THEN SemanticError("nome invalido",
                 self.body.stmts[CHOOSE j \in body_vars : \A k \in body_vars : j <= k].name)
        ELSE Valid

Return_validate_self(self, cursor) ==
    IF ~Cursor_is_scoped_to(cursor, "Function")
    THEN SemanticError("return fora de funcao", "return")
    ELSE LET func_cursor == Cursor_function_scope(cursor)
         IN  IF /\ self.value # None
                /\ func_cursor.node.name = "init"
                /\ func_cursor.parents # <<>>
                /\ Cursor_parent(func_cursor).node.type = "Class"
             THEN SemanticError("nao pode retornar valor de inicializador", "return")
             ELSE Valid

Class_validate_self(self, cursor) ==
    IF self.base = self.name
    THEN SemanticError("classe nao pode herdar de si mesma", self.name)
    ELSE Valid

validate_self(cursor) ==
    CASE cursor.node.type = "Var" -> Var_validate_self(cursor.node, cursor)
      [] cursor.node.type = "Return" -> Return_validate_self(cursor.node, cursor)
      [] cursor.node.type = "Class" -> Class_validate_self(cursor.node, cursor)
      [] cursor.node.type = "VarDef" -> VarDef_validate_self(cursor.node, cursor)
      [] cursor.node.type = "Block" -> Block_validate_self(cursor.node, cursor)
      [] cursor.node.type = "Function" -> Function_validate_self(cursor.node, cursor)
      [] OTHER -> Valid

\* The validation pass: every node's own check, once, with a cursor at the node.
validate_tree(tree) ==
    {validate_self(c) : c \in {Node_cursor(tree)} \cup Cursor_descendants(Node_cursor(tree))}
        \ {Valid}

(*************************** programs: validation **************************)
\* The initializers: a;  b;  1;  a + 1;  1 + b;  !a;  f(a);  a();  b and a;  a.fld;  b = 1
Initializers ==
    {a, b, NUMBER(1), op_handler("add", a, NUMBER(1)), op_handler("add", NUMBER(1), b),
     not_(a), call(f, <<args(<<a>>)>>), call(a, <<args(<<>>)>>), and_(b, a),
     call(a, <<attr(fld)>>), assign_expr(b, NUMBER(1))}

\* A declaration at the top level, in a block, in a function body, as the
\* initializer of a counted loop.
Placements(decl) ==
    {program(<<decl>>),
     program(<<block(<<decl>>)>>),
     program(<<function(f, param_list(<<p>>), block(<<decl, return_cmd(p)>>))>>),
     program(<<for_cmd(for_init(decl), maybe_cond(BOOL("false")), maybe_incr(None),
                       print_cmd(NUMBER(1)))>>)}

ValidationTrees ==
    UNION {Placements(var_decl(n, e)) : n \in {a, b}, e \in Initializers}

\* The transformer hands over the program's tree.
Transform ==
    /\ vcase.verdict = "none"
    /\ \E t \in ValidationTrees : vcase' = [tree |-> t, verdict |-> "parsed", errors |-> {}]
    /\ UNCHANGED <<heap, insts, ncls, out, live, exits, status, count, last>>

\* The validation pass over the tree: any failure rejects the program.
ValidateTree ==
    /\ vcase.verdict = "parsed"
    /\ LET errs == validate_tree(vcase.tree)
       IN  vcase' = [vcase EXCEPT !.verdict = IF errs = {} THEN "valid" ELSE "rejected",
                                  !.errors = errs]
    /\ UNCHANGED <<heap, insts, ncls, out, live, exits, status, count, last>>

NextV == Transform \/ ValidateTree

SpecV == Init /\ [][NextV]_vars

(*************************** claims: validation ****************************)
\* The expression is, or holds somewhere beneath it, a reference to the name.
References(e, name) ==
    \E d \in {Node_cursor(e)} \cup Cursor_descendants(Node_cursor(e)) :
        d.node.type = "Var" /\ d.node.name = name

SelfReferring(c) == c.node.type = "VarDef" /\ References(c.node.value, c.node.name)

\* C9: validation rejects every declaration whose parent is not the Program and
\* whose initializer references the declared name anywhere, the initializer
\* that is nothing but that reference included; with the Program as its parent
\* the same declaration is accepted.
C9_SelfReferenceRejected ==
    vcase.verdict \in {"valid", "rejected"} =>
        \A c \in Cursor_descendants(Node_cursor(vcase.tree)) :
            SelfReferring(c) =>
                IF Cursor_parent(c).node.type = "Program"
                THEN vcase.verdict = "valid"
                ELSE /\ vcase.verdict = "rejected"
                     /\ SemanticError("variavel usada em seu proprio inicializador",
                                      c.node.name) \in vcase.errors


====
